---- MODULE Spec2Model ----
(***************************************************************************)
(* Model of src/src/parser_v3.py: the positional inverted index, the IDF   *)
(* map, the TF-IDF ranked keyword query, the positional phrase query and   *)
(* the interactive loop that dispatches a raw query line to one of them.   *)
(*                                                                         *)
(* Text is a sequence of one-character strings.  A Python dict is a        *)
(* sequence of [key, val] records in insertion order (a dict iterates in   *)
(* insertion order, and the ranked result's order of equal scores depends  *)
(* on it).  A float score is a sum of tf * ln(N/DF) terms; it is kept as   *)
(* the reduced fraction num/den whose natural logarithm it is, so that     *)
(* sums, products by a count, comparisons and the test against 0.0 are     *)
(* exact integer arithmetic on the fraction.  A filename is a natural      *)
(* number; the order of the numbers is the lexicographic order of names.   *)
(***************************************************************************)
EXTENDS Integers, Sequences, FiniteSets, TLC

\* ------------------------------------------------------------------ bounds
NumDocs == 2
MaxDocWords == 2
MaxQueryWords == 2

\* ------------------------------------------------------------ characters
UpperCase == <<"A","B","C","D","E","F","G","H","I","J","K","L","M",
               "N","O","P","Q","R","S","T","U","V","W","X","Y","Z">>
LowerCase == <<"a","b","c","d","e","f","g","h","i","j","k","l","m",
               "n","o","p","q","r","s","t","u","v","w","x","y","z">>

\* string.punctuation (without the back quote, which no text of the model holds)
Punctuation == {"!", "\"", "#", "$", "%", "&", "'", "(", ")", "*", "+", ",",
                "-", ".", "/", ":", ";", "<", "=", ">", "?", "@", "[", "\\",
                "]", "^", "_", "{", "|", "}", "~"}

\* the characters str.split() and str.strip() treat as white space
Whitespace == {" ", "\t", "\n", "\r", "\f"}

STOP_WORDS == { <<"t","h","e">>, <<"i","s">>, <<"a","t">>, <<"o","n">>,
                <<"a","n","d">>, <<"a">>, <<"a","n">>, <<"o","f">>,
                <<"t","o">>, <<"i","n">> }

\* str.lower() on one character
UpperSet == {UpperCase[i] : i \in 1..Len(UpperCase)}

LowerChar(c) ==
    IF c \in UpperSet
    THEN LowerCase[CHOOSE i \in 1..Len(UpperCase) : UpperCase[i] = c]
    ELSE c

\* str.lower()
Lower(text) == [i \in 1..Len(text) |-> LowerChar(text[i])]

IsPunct(c) == c \in Punctuation

\* text.translate(str.maketrans("", "", string.punctuation))
StripPunct(text) == SelectSeq(text, LAMBDA c : ~IsPunct(c))

\* str.split(): the maximal runs of non-white-space characters, in order
RECURSIVE SplitFrom(_, _, _)
SplitFrom(text, i, cur) ==
    IF i > Len(text)
    THEN IF cur = <<>> THEN <<>> ELSE <<cur>>
    ELSE IF text[i] \in Whitespace
         THEN IF cur = <<>>
              THEN SplitFrom(text, i + 1, <<>>)
              ELSE <<cur>> \o SplitFrom(text, i + 1, <<>>)
         ELSE SplitFrom(text, i + 1, Append(cur, text[i]))

Split(text) == SplitFrom(text, 1, <<>>)

\* str.strip(): drop leading and trailing white space
RECURSIVE LStrip(_)
LStrip(text) ==
    IF text # <<>> /\ Head(text) \in Whitespace THEN LStrip(Tail(text)) ELSE text

RECURSIVE RStrip(_)
RStrip(text) ==
    IF text # <<>> /\ text[Len(text)] \in Whitespace
    THEN RStrip(SubSeq(text, 1, Len(text) - 1))
    ELSE text

Strip(text) == RStrip(LStrip(text))

IsTerm(w) == w # <<>> /\ w \notin STOP_WORDS

tokenize(text) == SelectSeq(Split(StripPunct(Lower(text))), IsTerm)

tokenize_query(query) == SelectSeq(Split(StripPunct(Lower(query))), IsTerm)

\* parse_query with a quote at either end taken for a phrase
parse_query_either_end(line) ==
    LET s == Strip(line)
    IN  IF Len(s) >= 2 /\ (s[1] = "\"" \/ s[Len(s)] = "\"")
        THEN [mode |-> "PHRASE", q |-> SubSeq(s, 2, Len(s) - 1)]
        ELSE [mode |-> "KEYWORD", q |-> s]

parse_query(line) ==
    LET s == Strip(line)
    IN  IF Len(s) >= 2 /\ s[1] = "\"" /\ s[Len(s)] = "\""
        THEN [mode |-> "PHRASE", q |-> SubSeq(s, 2, Len(s) - 1)]
        ELSE [mode |-> "KEYWORD", q |-> s]

\* ------------------------------------------------------------------ dicts
EmptyDict == <<>>

HasKey(d, k) == \E i \in 1..Len(d) : d[i].key = k

Lookup(d, k) == d[CHOOSE i \in 1..Len(d) : d[i].key = k].val

\* dict.get(k, default)
GetOr(d, k, default) == IF HasKey(d, k) THEN Lookup(d, k) ELSE default

\* d[k] = v: a new key goes last, an old key keeps its place
Store(d, k, v) ==
    IF HasKey(d, k)
    THEN [i \in 1..Len(d) |-> IF d[i].key = k THEN [key |-> k, val |-> v] ELSE d[i]]
    ELSE Append(d, [key |-> k, val |-> v])

Keys(d) == {d[i].key : i \in 1..Len(d)}

KeySeq(d) == [i \in 1..Len(d) |-> d[i].key]

\* ---------------------------------------------------------------- sorting
\* sorted() of a list of filenames: ascending
RECURSIVE InsertAsc(_, _)
InsertAsc(s, x) ==
    IF s = <<>> THEN <<x>>
    ELSE IF x < Head(s) THEN <<x>> \o s
         ELSE <<Head(s)>> \o InsertAsc(Tail(s), x)

RECURSIVE SortAsc(_)
SortAsc(s) ==
    IF s = <<>> THEN <<>> ELSE InsertAsc(SortAsc(SubSeq(s, 1, Len(s) - 1)), s[Len(s)])

RECURSIVE SetToSeq(_)
SetToSeq(S) ==
    IF S = {} THEN <<>>
    ELSE LET x == CHOOSE y \in S : TRUE IN <<x>> \o SetToSeq(S \ {x})

\* ----------------------------------------------------------------- floats
RECURSIVE GCD(_, _)
GCD(a, b) == IF b = 0 THEN a ELSE GCD(b, a % b)

Reduce(n, d) == LET g == GCD(n, d) IN [num |-> n \div g, den |-> d \div g]

RECURSIVE Pow(_, _)
Pow(b, e) == IF e = 0 THEN 1 ELSE b * Pow(b, e - 1)

\* 0.0
Zero == Reduce(1, 1)

\* math.log(n / d)
Log(n, d) == Reduce(n, d)

\* k * w, for a count k
Times(k, w) == [num |-> Pow(w.num, k), den |-> Pow(w.den, k)]

\* a + b
Plus(a, b) == Reduce(a.num * b.num, a.den * b.den)

\* a < b
Less(a, b) == a.num * b.den < b.num * a.den

\* a > 0.0
Positive(a) == a.num > a.den

\* ---------------------------------------------------------------- indexing
\* sorted([f for f in os.listdir(data_dir) if f.endswith(".txt")])
list_text_docs(dir) == SortAsc(SetToSeq(DOMAIN dir))

\* AddPosting with the position counted from 1
AddPostingFromOne(index, term, filename, pos) ==
    LET i1 == IF ~HasKey(index, term) THEN Store(index, term, EmptyDict) ELSE index
        p1 == Lookup(i1, term)
        p2 == IF ~HasKey(p1, filename) THEN Store(p1, filename, <<>>) ELSE p1
        p3 == Store(p2, filename, Append(Lookup(p2, filename), pos + 1))
    IN  Store(i1, term, p3)

\* AddPosting with the term's postings begun anew at each new file
AddPostingLastFile(index, term, filename, pos) ==
    LET i1 == IF ~HasKey(index, term) THEN Store(index, term, EmptyDict) ELSE index
        p1 == Lookup(i1, term)
        p2 == IF ~HasKey(p1, filename) THEN Store(EmptyDict, filename, <<>>) ELSE p1
        p3 == Store(p2, filename, Append(Lookup(p2, filename), pos))
    IN  Store(i1, term, p3)

\* one iteration of the inner loop of build_positional_index
AddPosting(index, term, filename, pos) ==
    LET i1 == IF ~HasKey(index, term) THEN Store(index, term, EmptyDict) ELSE index
        p1 == Lookup(i1, term)
        p2 == IF ~HasKey(p1, filename) THEN Store(p1, filename, <<>>) ELSE p1
        p3 == Store(p2, filename, Append(Lookup(p2, filename), pos))
    IN  Store(i1, term, p3)

\* for pos, term in enumerate(tokens): ...   (from position pos on)
RECURSIVE IndexTokens(_, _, _, _)
IndexTokens(index, filename, tokens, pos) ==
    IF pos >= Len(tokens) THEN index
    ELSE IndexTokens(AddPosting(index, tokens[pos + 1], filename, pos),
                     filename, tokens, pos + 1)

\* for filename in docs: ...   (from the i-th name on)
RECURSIVE IndexDocs(_, _, _, _)
IndexDocs(index, dir, names, i) ==
    IF i > Len(names) THEN index
    ELSE IndexDocs(IndexTokens(index, names[i], tokenize(dir[names[i]]), 0),
                   dir, names, i + 1)

\* build_positional_index with the documents processed in the order `names`
BuildInOrder(dir, names) ==
    [index |-> IndexDocs(EmptyDict, dir, names, 1), N |-> Len(names)]

build_positional_index(dir) == BuildInOrder(dir, list_text_docs(dir))

RECURSIVE IdfFrom(_, _, _)
IdfFrom(index, total_docs, i) ==
    IF i > Len(index) THEN EmptyDict
    ELSE LET df == Len(index[i].val)
             rest == IdfFrom(index, total_docs, i + 1)
         IN  IF df > 0
             THEN <<[key |-> index[i].key, val |-> Log(total_docs, df)]>> \o rest
             ELSE rest

\* compute_idf with log((N + 1) / DF)
RECURSIVE IdfFromPlusOne(_, _, _)
IdfFromPlusOne(index, total_docs, i) ==
    IF i > Len(index) THEN EmptyDict
    ELSE <<[key |-> index[i].key, val |-> Log(total_docs + 1, Len(index[i].val))]>>
         \o IdfFromPlusOne(index, total_docs, i + 1)

compute_idf_plus_one(index, total_docs) ==
    IF total_docs <= 0 THEN EmptyDict ELSE IdfFromPlusOne(index, total_docs, 1)

\* compute_idf with log(N / (1 + DF))
RECURSIVE IdfFromSmoothed(_, _, _)
IdfFromSmoothed(index, total_docs, i) ==
    IF i > Len(index) THEN EmptyDict
    ELSE LET df == Len(index[i].val)
             rest == IdfFromSmoothed(index, total_docs, i + 1)
         IN  IF df > 0
             THEN <<[key |-> index[i].key, val |-> Log(total_docs, 1 + df)]>> \o rest
             ELSE rest

compute_idf_smoothed(index, total_docs) ==
    IF total_docs <= 0 THEN EmptyDict ELSE IdfFromSmoothed(index, total_docs, 1)

compute_idf(index, total_docs) ==
    IF total_docs <= 0 THEN EmptyDict ELSE IdfFrom(index, total_docs, 1)

\* --------------------------------------------------------------- retrieval
\* ScorePostings with scores[doc] = tf * w_idf: assigned, not accumulated
RECURSIVE ScorePostingsAssign(_, _, _, _)
ScorePostingsAssign(scores, postings, w_idf, j) ==
    IF j > Len(postings) THEN scores
    ELSE ScorePostingsAssign(Store(scores, postings[j].key, Times(Len(postings[j].val), w_idf)),
                             postings, w_idf, j + 1)

\* for doc, positions in postings.items(): scores[doc] = scores.get(doc, 0.0) + tf * w_idf
RECURSIVE ScorePostings(_, _, _, _)
ScorePostings(scores, postings, w_idf, j) ==
    IF j > Len(postings) THEN scores
    ELSE LET doc == postings[j].key
             tf  == Len(postings[j].val)
         IN  ScorePostings(Store(scores, doc, Plus(GetOr(scores, doc, Zero), Times(tf, w_idf))),
                           postings, w_idf, j + 1)

\* ScoreTerms with a term that stood earlier in the query passed over
RECURSIVE ScoreTermsOnce(_, _, _, _, _)
ScoreTermsOnce(scores, index, idf, terms, i) ==
    IF i > Len(terms) THEN scores
    ELSE IF ~HasKey(index, terms[i]) \/ (\E j \in 1..(i - 1) : terms[j] = terms[i])
         THEN ScoreTermsOnce(scores, index, idf, terms, i + 1)
         ELSE ScoreTermsOnce(ScorePostings(scores, Lookup(index, terms[i]),
                                           GetOr(idf, terms[i], Zero), 1),
                             index, idf, terms, i + 1)

\* for term in terms: if term not in index: continue ...
RECURSIVE ScoreTerms(_, _, _, _, _)
ScoreTerms(scores, index, idf, terms, i) ==
    IF i > Len(terms) THEN scores
    ELSE IF ~HasKey(index, terms[i])
         THEN ScoreTerms(scores, index, idf, terms, i + 1)
         ELSE ScoreTerms(ScorePostings(scores, Lookup(index, terms[i]),
                                       GetOr(idf, terms[i], Zero), 1),
                         index, idf, terms, i + 1)

\* sorted(items, key=lambda x: x[1], reverse=True): a stable sort, so items of
\* equal score keep the order they have in `items`
RECURSIVE InsertDesc(_, _)
InsertDesc(s, x) ==
    IF s = <<>> THEN <<x>>
    ELSE IF Less(Head(s).val, x.val) THEN <<x>> \o s
         ELSE <<Head(s)>> \o InsertDesc(Tail(s), x)

RECURSIVE SortDesc(_)
SortDesc(items) ==
    IF items = <<>> THEN <<>>
    ELSE InsertDesc(SortDesc(SubSeq(items, 1, Len(items) - 1)), items[Len(items)])

RankItems(scores) == SortDesc(scores)

ranked_keyword_query_tfidf(index, idf, query) ==
    LET terms == tokenize_query(query)
    IN  IF terms = <<>> THEN <<>>
        ELSE RankItems(ScoreTerms(EmptyDict, index, idf, terms, 1))

\* Matches with the adjacency test taken on either side of p
MatchesEitherSide(prev_positions, next_positions) ==
    LET next_set == {next_positions[i] : i \in 1..Len(next_positions)}
        alive    == SelectSeq(prev_positions,
                              LAMBDA p : (p + 1) \in next_set \/ (p - 1) \in next_set)
    IN  [i \in 1..Len(alive) |-> alive[i] + 1]

\* matches = [p + 1 for p in prev_positions if (p + 1) in next_set]
Matches(prev_positions, next_positions) ==
    LET next_set == {next_positions[i] : i \in 1..Len(next_positions)}
        alive    == SelectSeq(prev_positions, LAMBDA p : (p + 1) \in next_set)
    IN  [i \in 1..Len(alive) |-> alive[i] + 1]

\* for doc, prev_positions in candidate_docs.items(): ...
RECURSIVE NewCandidates(_, _, _)
NewCandidates(candidate_docs, next_docs, j) ==
    IF j > Len(candidate_docs) THEN EmptyDict
    ELSE LET doc  == candidate_docs[j].key
             rest == NewCandidates(candidate_docs, next_docs, j + 1)
         IN  IF ~HasKey(next_docs, doc) THEN rest
             ELSE LET matches == Matches(candidate_docs[j].val, Lookup(next_docs, doc))
                  IN  IF matches # <<>>
                      THEN <<[key |-> doc, val |-> matches]>> \o rest
                      ELSE rest

\* PhraseLoop with a later term that is not in the index passed over
RECURSIVE PhraseLoopSkipAbsent(_, _, _, _)
PhraseLoopSkipAbsent(candidate_docs, index, terms, i) ==
    IF i > Len(terms) THEN SortAsc(KeySeq(candidate_docs))
    ELSE IF ~HasKey(index, terms[i])
         THEN PhraseLoopSkipAbsent(candidate_docs, index, terms, i + 1)
         ELSE LET new_candidates == NewCandidates(candidate_docs, Lookup(index, terms[i]), 1)
              IN  IF new_candidates = EmptyDict THEN <<>>
                  ELSE PhraseLoopSkipAbsent(new_candidates, index, terms, i + 1)

\* for i in range(1, len(terms)): ...   (terms are 1-based here: from the i-th on)
RECURSIVE PhraseLoop(_, _, _, _)
PhraseLoop(candidate_docs, index, terms, i) ==
    IF i > Len(terms) THEN SortAsc(KeySeq(candidate_docs))
    ELSE IF ~HasKey(index, terms[i]) THEN <<>>
         ELSE LET new_candidates == NewCandidates(candidate_docs, Lookup(index, terms[i]), 1)
              IN  IF new_candidates = EmptyDict THEN <<>>
                  ELSE PhraseLoop(new_candidates, index, terms, i + 1)

phrase_query(index, phrase) ==
    LET terms == tokenize_query(phrase)
    IN  IF terms = <<>> THEN <<>>
        ELSE IF ~HasKey(index, terms[1]) THEN <<>>
             ELSE PhraseLoop(Lookup(index, terms[1]), index, terms, 2)

\* ------------------------------------------------------------------ inputs
BSeq(S, n) == UNION {[1..k -> S] : k \in 0..n}

\* the words joined by single spaces
RECURSIVE JoinWords(_)
JoinWords(ws) ==
    IF ws = <<>> THEN <<>>
    ELSE IF Len(ws) = 1 THEN ws[1]
         ELSE ws[1] \o <<" ">> \o JoinWords(Tail(ws))

Quote == <<"\"">>

DocWords == { <<"m">>, <<"l">> }

QueryWords == { <<"m">>, <<"l">>, <<"x">> }

DocTexts == {JoinWords(ws) : ws \in BSeq(DocWords, MaxDocWords)}

MACHINE  == <<"m","a","c","h","i","n","e">>
LEARNING == <<"l","e","a","r","n","i","n","g">>
IS       == <<"i","s">>
FUN      == <<"f","u","n">>
BORING   == <<"b","o","r","i","n","g">>
EXIT     == <<"e","x","i","t">>

\* "machine learning is fun" / "learning machine is boring"; a text with capitals,
\* stop words and punctuation; a text whose stop word stands between two terms
ExtraCorpora ==
    { <<JoinWords(<<MACHINE, LEARNING, IS, FUN>>), JoinWords(<<LEARNING, MACHINE, IS, BORING>>)>>,
      << <<"T","h","e"," ","C","a","t"," ","s","a","t"," ","o","n"," ","t","h","e"," ","M","A","T",".">> >>,
      << <<"m"," ","a"," ","l">>, <<"M","."," ","l","!">> >> }

Corpora == ExtraCorpora \cup UNION {[1..n -> DocTexts] : n \in 0..NumDocs}

QueryTexts == {JoinWords(ws) : ws \in BSeq(QueryWords, MaxQueryWords)}

ExtraQueries ==
    { JoinWords(<<MACHINE, LEARNING>>),
      Quote \o JoinWords(<<MACHINE, LEARNING>>) \o Quote,
      Quote \o JoinWords(<<MACHINE, LEARNING>>),
      Quote \o JoinWords(<<LEARNING, IS, FUN>>) \o Quote,
      Quote \o JoinWords(<<IS, <<"a">> >>) \o Quote,
      <<"c","a","t"," ","S","A","T"," ","t","h","e"," ","m","a","t","?">>,
      <<" ">>, <<" ">> \o Quote \o <<"m"," ","l">> \o Quote \o <<" ">>,
      <<"m"," ","x"," ","m">>,
      EXIT, <<"E","x","i","t">> }

Lines ==
    ExtraQueries
    \cup QueryTexts
    \cup {Quote \o q \o Quote : q \in QueryTexts}
    \cup {Quote \o q : q \in QueryTexts}
    \cup {q \o Quote : q \in QueryTexts}

\* ----------------------------------------------------------- state machine
VARIABLES
    corpus,       \* the data directory: filename -> text
    pc,           \* "build", "idf", "ready" (at the prompt), "print", "exited",
                  \* or "rebuilt" (a later run, its index and idf map built)
    docs,         \* build_positional_index: the sorted filenames
    di,           \* build_positional_index: the place in docs of the current file
    pos,          \* build_positional_index: the next token position of that file
    index,        \* the positional index
    N,            \* the document count
    idf,          \* the idf map
    raw,          \* main: the last query line, stripped
    mode,         \* main: the mode parse_query gave it
    results,      \* main: the ranked result of a KEYWORD line
    phrase_docs,  \* main: the documents of a PHRASE line
    prev          \* history: after a re-run, the changed document, the added
                  \* term and the index and idf map of the run before; else <<>>

vars == <<corpus, pc, docs, di, pos, index, N, idf, raw, mode, results, phrase_docs, prev>>

Init ==
    /\ corpus \in Corpora
    /\ pc = "build"
    /\ docs = list_text_docs(corpus)
    /\ di = 1
    /\ pos = 0
    /\ index = EmptyDict
    /\ N = 0
    /\ idf = EmptyDict
    /\ raw = <<>>
    /\ mode = "NONE"
    /\ results = <<>>
    /\ phrase_docs = <<>>
    /\ prev = <<>>

\* the tokens of the file the build is at
CurTokens == tokenize(corpus[docs[di]])

\* one iteration of `for pos, term in enumerate(tokens)`
BuildStep ==
    /\ pc = "build"
    /\ di <= Len(docs)
    /\ pos < Len(CurTokens)
    /\ index' = AddPosting(index, CurTokens[pos + 1], docs[di], pos)
    /\ pos' = pos + 1
    /\ UNCHANGED <<corpus, pc, docs, di, N, idf, raw, mode, results, phrase_docs, prev>>

\* the tokens of the file are used up: the next file
NextDoc ==
    /\ pc = "build"
    /\ di <= Len(docs)
    /\ pos >= Len(CurTokens)
    /\ di' = di + 1
    /\ pos' = 0
    /\ UNCHANGED <<corpus, pc, docs, index, N, idf, raw, mode, results, phrase_docs, prev>>

\* return index, len(docs)
BuildReturn ==
    /\ pc = "build"
    /\ di > Len(docs)
    /\ N' = Len(docs)
    /\ pc' = "idf"
    /\ UNCHANGED <<corpus, docs, di, pos, index, idf, raw, mode, results, phrase_docs, prev>>

\* idf = compute_idf(index, N)
ComputeIdf ==
    /\ pc = "idf"
    /\ idf' = compute_idf(index, N)
    /\ pc' = "ready"
    /\ UNCHANGED <<corpus, docs, di, pos, index, N, raw, mode, results, phrase_docs, prev>>

\* the engine of the line's mode
Dispatch(r) ==
    \E p \in {parse_query(r)} :
        /\ raw' = r
        /\ mode' = p.mode
        /\ IF p.mode = "PHRASE"
           THEN /\ phrase_docs' = phrase_query(index, p.q)
                /\ results' = <<>>
           ELSE /\ results' = ranked_keyword_query_tfidf(index, idf, p.q)
                /\ phrase_docs' = <<>>
        /\ pc' = "print"
        /\ UNCHANGED <<corpus, docs, di, pos, index, N, idf, prev>>

\* one line read at the prompt: exit (in any case of letters) leaves the loop,
\* an empty line is skipped, any other line is a query
ReadLine ==
    /\ pc = "ready"
    /\ \E line \in Lines : \E r \in {Strip(line)} :
           \/ /\ Lower(r) = EXIT
              /\ pc' = "exited"
              /\ UNCHANGED <<corpus, docs, di, pos, index, N, idf, raw, mode, results, phrase_docs, prev>>
           \/ /\ Lower(r) # EXIT
              /\ r = <<>>
              /\ UNCHANGED vars
           \/ /\ Lower(r) # EXIT
              /\ r # <<>>
              /\ Dispatch(r)

\* the result is printed and the loop is back at the prompt; what the line
\* left in the locals is never read again
ShowResults ==
    /\ pc = "print"
    /\ pc' = "ready"
    /\ raw' = <<>>
    /\ mode' = "NONE"
    /\ results' = <<>>
    /\ phrase_docs' = <<>>
    /\ UNCHANGED <<corpus, docs, di, pos, index, N, idf, prev>>

\* the text with one more occurrence of the word t at its end
AppendWord(text, t) == IF text = <<>> THEN t ELSE text \o <<" ">> \o t

\* the program run again on the corpus with one more occurrence of t in d:
\* index, N and idf are built anew
Reindex ==
    /\ pc = "ready"
    /\ \E d \in DOMAIN corpus, t \in DocWords :
          /\ Len(Split(corpus[d])) < MaxDocWords
          /\ LET dir == [corpus EXCEPT ![d] = AppendWord(@, t)]
                 b   == build_positional_index(dir)
             IN  /\ corpus' = dir
                 /\ docs' = list_text_docs(dir)
                 /\ di' = Len(list_text_docs(dir)) + 1
                 /\ index' = b.index
                 /\ N' = b.N
                 /\ idf' = compute_idf(b.index, b.N)
          /\ prev' = [d |-> d, t |-> t, index |-> index, idf |-> idf]
    /\ pos' = 0
    /\ raw' = <<>>
    /\ mode' = "NONE"
    /\ results' = <<>>
    /\ phrase_docs' = <<>>
    /\ pc' = "rebuilt"

\* the new run prints its banner and is at its prompt
Banner ==
    /\ pc = "rebuilt"
    /\ pc' = "ready"
    /\ prev' = <<>>
    /\ UNCHANGED <<corpus, docs, di, pos, index, N, idf, raw, mode, results, phrase_docs>>

Next ==
    \/ BuildStep
    \/ NextDoc
    \/ BuildReturn
    \/ ComputeIdf
    \/ ReadLine
    \/ ShowResults
    \/ Reindex
    \/ Banner

Spec == Init /\ [][Next]_vars

\* the runs without their input loops: the builds alone
NextBuild ==
    \/ BuildStep
    \/ NextDoc
    \/ BuildReturn
    \/ ComputeIdf
    \/ Reindex
    \/ Banner

SpecBuild == Init /\ [][NextBuild]_vars

\* the build the actions perform step by step is the build of build_positional_index
BuildAgrees ==
    pc \in {"idf", "ready", "print", "exited", "rebuilt"} =>
        /\ index = build_positional_index(corpus).index
        /\ pc # "idf" => N = build_positional_index(corpus).N
        /\ pc # "idf" => idf = compute_idf(index, N)

\* ------------------------------------------------- what the claims refer to
DocIds == DOMAIN corpus

Range(s) == {s[i] : i \in 1..Len(s)}

\* the token sequence of document d
Tokens(d) == tokenize(corpus[d])

Occurs(t, d) == t \in Range(Tokens(d))

\* the number of occurrences of t in d, and the number of documents that hold t
TF(t, d) == Cardinality({p \in 1..Len(Tokens(d)) : Tokens(d)[p] = t})

DF(t) == Cardinality({d \in DocIds : Occurs(t, d)})

\* d holds the terms at consecutive positions, in their order
ContainsPhrase(d, terms) ==
    LET toks == Tokens(d)
    IN  \E p \in 0..(Len(toks) - Len(terms)) :
            \A i \in 1..Len(terms) : toks[p + i] = terms[i]

\* the terms of the query the loop has just answered
QueryTerms == tokenize_query(parse_query(raw).q)

\* the score of d accumulated over the term occurrences of a query
RECURSIVE AccScore(_, _)
AccScore(terms, d) ==
    IF terms = <<>> THEN Zero
    ELSE LET t == terms[Len(terms)]
             front == AccScore(SubSeq(terms, 1, Len(terms) - 1), d)
         IN  IF Occurs(t, d)
             THEN Plus(front, Times(TF(t, d), Log(Cardinality(DocIds), DF(t))))
             ELSE front

StrictlyAscending(s) == \A i \in 1..Len(s) - 1 : s[i] < s[i + 1]

PhraseAnswered == pc = "print" /\ mode = "PHRASE"

KeywordAnswered == pc = "print" /\ mode = "KEYWORD"

ExampleCorpus ==
    <<JoinWords(<<MACHINE, LEARNING, IS, FUN>>), JoinWords(<<LEARNING, MACHINE, IS, BORING>>)>>

ExamplePhrase == Quote \o JoinWords(<<MACHINE, LEARNING>>) \o Quote

\* ------------------------------------------------------------------ claims

\* C1: a phrase whose terms are all in the index is answered by exactly the
\* documents whose token sequence holds the terms at consecutive positions in
\* their order, listed by ascending document id without duplicates; on the
\* corpus "machine learning is fun" / "learning machine is boring" the phrase
\* "machine learning" is answered by the first document alone.
C1_PhraseExact ==
    PhraseAnswered =>
        LET terms == QueryTerms
        IN  (terms # <<>> /\ \A i \in 1..Len(terms) : HasKey(index, terms[i]))
                => /\ Range(phrase_docs) = {d \in DocIds : ContainsPhrase(d, terms)}
                   /\ StrictlyAscending(phrase_docs)
                   /\ (corpus = ExampleCorpus /\ raw = ExamplePhrase) => phrase_docs = <<1>>

\* the example of C1: both documents hold both terms, one in the phrase's order
C1_Witness ==
    /\ PhraseAnswered
    /\ corpus = ExampleCorpus
    /\ raw = ExamplePhrase
    /\ \A i \in 1..Len(QueryTerms) : HasKey(index, QueryTerms[i])
    /\ phrase_docs = <<1>>

\* C2: every returned pair has a nonzero score, and every document whose
\* accumulated score is nonzero is returned.
C2_NonzeroOnly ==
    KeywordAnswered
        => /\ \A i \in 1..Len(results) : results[i].val # Zero
           /\ \A d \in DocIds : AccScore(QueryTerms, d) # Zero => d \in Keys(results)

\* C3: the ranked result is in descending order of score, and documents of
\* equal score are in ascending order of document id.
C3_SortedTiesAscending ==
    KeywordAnswered
        => \A i, j \in 1..Len(results) :
              i < j => /\ ~Less(results[i].val, results[j].val)
                       /\ results[i].val = results[j].val => results[i].key < results[j].key

\* the result's entry for the only document, with score 0.0
OnlyDocZero == <<[key |-> 1, val |-> Zero]>>

SingleDocCase ==
    /\ KeywordAnswered
    /\ DocIds = {1}
    /\ QueryTerms # <<>>
    /\ Range(QueryTerms) = Range(Tokens(1))

\* C4 as stated: on a corpus of one document, a query of exactly the
\* document's terms returns the document with a strictly positive score.
C4_SingleDocPositive ==
    SingleDocCase => \E i \in 1..Len(results) : results[i].key = 1 /\ Positive(results[i].val)

\* C4 as amended: on a corpus of one document, a query of exactly the
\* document's terms returns the document, alone, with the score 0.0
\* (every term has idf ln(1/1) = 0).
C4_SingleDocZero == SingleDocCase => results = OnlyDocZero

C4_Witness == SingleDocCase /\ Len(QueryTerms) >= 2 /\ results = OnlyDocZero

\* the line has a double quote at exactly one of its ends
OneSidedQuote(r) == Len(r) >= 2 /\ ((r[1] = "\"") # (r[Len(r)] = "\""))

\* the line is a quoted phrase whose content gives no terms
EmptyPhrase(r) == parse_query(r).mode = "PHRASE" /\ tokenize_query(parse_query(r).q) = <<>>

NoResult == results = <<>> /\ phrase_docs = <<>>

\* C5 as stated: a line with a quote at only one end, a lone quote and a
\* quoted phrase without terms all give an empty result.
C5_MalformedEmpty ==
    (pc = "print" /\ (OneSidedQuote(raw) \/ raw = Quote \/ EmptyPhrase(raw))) => NoResult

\* C5 as amended: a lone quote and a quoted phrase without terms give an empty
\* result; a line with a quote at only one end is answered as a keyword
\* query, by every document that holds at least one of its words.
C5_MalformedHandled ==
    pc = "print" =>
        /\ (raw = Quote \/ (raw[1] = "\"" /\ EmptyPhrase(raw))) => NoResult
        /\ OneSidedQuote(raw) =>
              /\ mode = "KEYWORD"
              /\ phrase_docs = <<>>
              /\ Keys(results) = {d \in DocIds : \E t \in Range(tokenize_query(raw)) : Occurs(t, d)}

C5_Witness ==
    /\ pc = "print"
    /\ OneSidedQuote(raw)
    /\ mode = "KEYWORD"
    /\ results # <<>>

\* C6: a phrase with a term that no document holds, at any place of the
\* phrase, is answered by the empty list, and so is a phrase of which some
\* leading part stands in no document.
C6_AbsentTermEmpty ==
    PhraseAnswered =>
        LET terms == QueryTerms
        IN  /\ (\E i \in 1..Len(terms) : ~HasKey(index, terms[i])) => phrase_docs = <<>>
            /\ (\E k \in 1..Len(terms) :
                   \A d \in DocIds : ~ContainsPhrase(d, SubSeq(terms, 1, k))) => phrase_docs = <<>>

\* a later term is absent while a document holds the terms before it
C6_Witness ==
    /\ PhraseAnswered
    /\ Len(QueryTerms) >= 2
    /\ ~HasKey(index, QueryTerms[Len(QueryTerms)])
    /\ \E d \in DocIds : ContainsPhrase(d, SubSeq(QueryTerms, 1, Len(QueryTerms) - 1))
    /\ phrase_docs = <<>>

\* C7: in every state of the build and after it, every position list of the
\* index is non-empty and strictly increasing, and the token of the document
\* at each listed position is the term.
C7_PostingsSound ==
    pc \in {"build", "idf", "ready", "rebuilt"} =>
    \A i \in 1..Len(index) : \A j \in 1..Len(index[i].val) :
        LET term == index[i].key
            doc == index[i].val[j].key
            positions == index[i].val[j].val
        IN  /\ positions # <<>>
            /\ StrictlyAscending(positions)
            /\ doc \in DocIds
            /\ \A k \in 1..Len(positions) :
                  /\ positions[k] >= 0
                  /\ positions[k] < Len(Tokens(doc))
                  /\ Tokens(doc)[positions[k] + 1] = term

\* the build is inside a document, with a term already met twice
C7_Witness ==
    /\ pc = "build"
    /\ di <= Len(docs)
    /\ pos < Len(CurTokens)
    /\ \E i \in 1..Len(index) : \E j \in 1..Len(index[i].val) : Len(index[i].val[j].val) >= 2

\* index, N and idf map are built and the run is at (or about to be at) its prompt
Built == pc \in {"ready", "rebuilt"}

\* C8: once index, N and idf map are built, every term of the index has
\* 1 <= DF <= N, the idf map is defined for exactly the terms of the index,
\* every idf is >= 0 (ratio N/DF >= 1), and it is 0 (ratio 1) iff DF = N.
C8_IdfSign ==
    Built =>
        /\ Keys(idf) = Keys(index)
        /\ \A i \in 1..Len(index) :
              LET term == index[i].key
                  df == Len(index[i].val)
              IN  /\ df = DF(term)
                  /\ 1 <= df /\ df <= N
                  /\ HasKey(idf, term)
                  /\ Lookup(idf, term).num >= Lookup(idf, term).den
                  /\ ~Less(Lookup(idf, term), Zero)
                  /\ (Lookup(idf, term) = Zero) <=> (df = N)

\* a term of every document beside a term of some documents only
C8_Witness ==
    /\ Built
    /\ N >= 2
    /\ \E i, j \in 1..Len(index) : Len(index[i].val) = N /\ Len(index[j].val) < N

\* the ranked score of d for a query: its entry in the result, 0.0 without one
RankedScore(ix, weights, query, d) ==
    GetOr(ranked_keyword_query_tfidf(ix, weights, query), d, Zero)

KeywordLines == {q \in QueryTexts : parse_query(q).mode = "KEYWORD"}

\* C9: after a re-run on the corpus with one more occurrence of t at the end
\* of d, the ranked score of d for every keyword query that holds t is not
\* below its score in the run before.
C9_Monotone ==
    (pc = "rebuilt" /\ prev # <<>>) =>
        \A q \in KeywordLines :
            prev.t \in Range(tokenize_query(q)) =>
                ~Less(RankedScore(index, idf, q, prev.d),
                      RankedScore(prev.index, prev.idf, q, prev.d))

\* the added occurrence is the first of t in d, t was in another document
\* (so DF(t) rises), and d had a positive score for a query that holds t
C9_Witness ==
    /\ pc = "rebuilt"
    /\ prev # <<>>
    /\ HasKey(prev.index, prev.t)
    /\ ~HasKey(Lookup(prev.index, prev.t), prev.d)
    /\ Len(Lookup(index, prev.t)) = Len(Lookup(prev.index, prev.t)) + 1
    /\ \E q \in KeywordLines :
          /\ prev.t \in Range(tokenize_query(q))
          /\ Positive(RankedScore(prev.index, prev.idf, q, prev.d))

\* the orders in which the documents can be processed
Orders == {o \in [1..Cardinality(DocIds) -> DocIds] : \A i, j \in DOMAIN o : i # j => o[i] # o[j]}

\* a dict as the mapping it is, without its insertion order
AsMap(d) == [k \in Keys(d) |-> Lookup(d, k)]

\* an index as the mapping term -> document -> position list
IndexMap(ix) == [term \in Keys(ix) |-> AsMap(Lookup(ix, term))]

\* C10: the index built from the documents processed in any order is the same
\* mapping term -> document -> position list, with the same document count
\* and the same idf map, and a second build of the corpus gives the index
\* and the document count again.
C10_OrderIndependent ==
    Built =>
        /\ \A o \in Orders :
              LET b == BuildInOrder(corpus, o)
              IN  /\ IndexMap(b.index) = IndexMap(index)
                  /\ b.N = N
                  /\ AsMap(compute_idf(b.index, b.N)) = AsMap(idf)
        /\ build_positional_index(corpus) = [index |-> index, N |-> N]
        /\ compute_idf(index, N) = idf

\* two documents share a term, and the other order lists them the other way
C10_Witness ==
    /\ Built
    /\ N >= 2
    /\ \E o \in Orders : BuildInOrder(corpus, o).index # index
    /\ \E i \in 1..Len(index) : Len(index[i].val) >= 2

\* the sum, over the occurrences of the query's terms that are in the index ix
\* with d among their postings, of len(ix[term][d]) * weights[term]
RECURSIVE IndexScoreUpTo(_, _, _, _, _)
IndexScoreUpTo(terms, n, d, ix, weights) ==
    IF n = 0 THEN Zero
    ELSE IF HasKey(ix, terms[n]) /\ HasKey(Lookup(ix, terms[n]), d)
         THEN Plus(IndexScoreUpTo(terms, n - 1, d, ix, weights),
                   Times(Len(Lookup(Lookup(ix, terms[n]), d)), Lookup(weights, terms[n])))
         ELSE IndexScoreUpTo(terms, n - 1, d, ix, weights)

IndexScore(terms, d, ix, weights) == IndexScoreUpTo(terms, Len(terms), d, ix, weights)

\* C11: the score of every document of a ranked result is the sum, over each
\* occurrence of each query term (a term repeated m times counts m times) that
\* is in the index with the document among its postings, of
\* len(index[term][d]) * idf[term]; a term that is not in the index adds
\* nothing; and answering a line, keyword or phrase, leaves the index and the
\* idf map as they were.
C11_ScoreSum ==
    [][(pc = "ready" /\ pc' = "print") =>
          /\ index' = index
          /\ idf' = idf
          /\ mode' = "KEYWORD" =>
                \A terms \in {tokenize_query(parse_query(raw').q)} :
                    \A i \in 1..Len(results') :
                        results'[i].val = IndexScore(terms, results'[i].key, index, idf)]_vars

\* a query with a term twice and a term that is not in the index, answered
\* with a document whose score counts the repeated term twice
C11_Witness ==
    /\ KeywordAnswered
    /\ \E i, j \in 1..Len(QueryTerms) : i # j /\ QueryTerms[i] = QueryTerms[j]
    /\ \E i \in 1..Len(QueryTerms) : ~HasKey(index, QueryTerms[i])
    /\ \E i \in 1..Len(results) :
          /\ Positive(results[i].val)
          /\ results[i].val = Times(2, Lookup(idf, QueryTerms[1]))

====
